---- MODULE Spec2Model ----
(***************************************************************************)
(* Quaternion algebra of src/src/lib.rs.                                   *)
(*                                                                         *)
(* The library is generic over T: Float.  T is modelled by the rationals   *)
(* (a reduced pair <<numerator, denominator>> with denominator > 0), so    *)
(* that +, -, *, / are exact.  sqrt is exact on rational squares and the   *)
(* arguments of the calls are drawn from the inputs on which every sqrt    *)
(* the call takes is rational.  An angle is given by t = tan(angle / 4):   *)
(* the sine and cosine of its half are then the rationals 2t / (1 + t^2)   *)
(* and (1 - t^2) / (1 + t^2).  Rounding of f32 / f64 is not modelled.      *)
(*                                                                         *)
(* A quaternion is the pair <<w, <<x, y, z>>>> of the source (T, [T; 3]).  *)
(***************************************************************************)
EXTENDS Integers, Sequences, FiniteSets, TLC

VARIABLES pc, fn, args, ret

vars == <<pc, fn, args, ret>>

(***************************************************************************)
(* Bounds of the model.                                                    *)
(***************************************************************************)
\* integer coordinates of the vectors given to rotation_from_to / axis_angle
MaxCoord == 4
\* integer coordinates of the vectors given to rotate_vector
MaxV == 1
\* integer coordinates of the quaternions (before normalisation)
MaxQ == 1
\* numerator and denominator of tan(angle / 4)
MaxTan == 2
\* scalar multiples used for scale and for vectors along an axis
MaxK == 2

(***************************************************************************)
(* T: Float as exact rationals.                                            *)
(***************************************************************************)
RECURSIVE GCD(_, _)
GCD(a, b) == IF b = 0 THEN a ELSE GCD(b, a % b)

Abs(n) == IF n < 0 THEN -n ELSE n

\* the reduced fraction n / d (d # 0)
Rat(n, d) ==
    LET g == GCD(Abs(n), Abs(d))
        s == IF d < 0 THEN -1 ELSE 1
    IN  <<s * (n \div g), s * (d \div g)>>

zero == <<0, 1>>
one == <<1, 1>>

\* a + b over the least common denominator; the sum is reduced by what it
\* shares with the gcd of the denominators
fadd(a, b) ==
    IF a[2] = 1 /\ b[2] = 1
    THEN <<a[1] + b[1], 1>>
    ELSE LET g == GCD(a[2], b[2])
             n == a[1] * (b[2] \div g) + b[1] * (a[2] \div g)
             h == GCD(Abs(n), g)
         IN  IF n = 0 THEN <<0, 1>>
             ELSE <<n \div h, (a[2] \div g) * (b[2] \div h)>>

fneg(a) == <<-a[1], a[2]>>

fsub(a, b) == fadd(a, fneg(b))

\* a * b, cancelled crosswise: in lowest terms when a and b are
fmul(a, b) ==
    IF a[1] = 0 \/ b[1] = 0
    THEN <<0, 1>>
    ELSE IF a[2] = 1 /\ b[2] = 1
         THEN <<a[1] * b[1], 1>>
         ELSE LET g1 == GCD(Abs(a[1]), b[2])
                  g2 == GCD(Abs(b[1]), a[2])
              IN  <<(a[1] \div g1) * (b[1] \div g2),
                    (a[2] \div g2) * (b[2] \div g1)>>

\* b # zero: the rationals have no infinity or NaN
fdiv(a, b) == fmul(a, Rat(b[2], b[1]))

flt(a, b) == a[1] * b[2] < b[1] * a[2]

fge(a, b) == ~flt(a, b)

RECURSIVE ISqrtFrom(_, _)
ISqrtFrom(k, n) == IF k * k >= n THEN k ELSE ISqrtFrom(k + 1, n)

IsSquare(n) == n >= 0 /\ ISqrtFrom(0, n) * ISqrtFrom(0, n) = n

\* whether sqrt(a) is a rational
HasSqrt(a) == IsSquare(a[1]) /\ IsSquare(a[2])

\* sqrt on the rational squares; undefined (no value) elsewhere
fsqrt(a) ==
    <<CHOOSE r \in {ISqrtFrom(0, a[1])} : r * r = a[1],
      CHOOSE r \in {ISqrtFrom(0, a[2])} : r * r = a[2]>>

from_f64_neg_0_999999 == Rat(-999999, 1000000)

(***************************************************************************)
(* Angles.  [quarter_tan |-> t] is the angle 4 * atan(t); its half is      *)
(* [half_tan |-> t], the angle 2 * atan(t).                                *)
(***************************************************************************)
Angle(t) == [quarter_tan |-> t]

\* angle / two
half(angle) == [half_tan |-> angle.quarter_tan]

\* h.cos() and h.sin() of a half angle h = 2 * atan(t)
cos(h) ==
    LET t2 == fmul(h.half_tan, h.half_tan)
    IN  fdiv(fsub(one, t2), fadd(one, t2))

sin(h) ==
    LET t2 == fmul(h.half_tan, h.half_tan)
    IN  fdiv(fadd(h.half_tan, h.half_tan), fadd(one, t2))

\* mutant of PI: a wrong constant, 4 * atan(1 / 2)
PI_wrong_constant == Angle(Rat(1, 2))

\* pi = 4 * atan(1)
PI == Angle(one)

(***************************************************************************)
(* The vecmath primitives the library imports.                             *)
(***************************************************************************)
vec3_add(a, b) == <<fadd(a[1], b[1]), fadd(a[2], b[2]), fadd(a[3], b[3])>>

vec3_scale(a, t) == <<fmul(a[1], t), fmul(a[2], t), fmul(a[3], t)>>

vec3_neg(a) == <<fneg(a[1]), fneg(a[2]), fneg(a[3])>>

vec3_dot(a, b) ==
    fadd(fadd(fmul(a[1], b[1]), fmul(a[2], b[2])), fmul(a[3], b[3]))

vec3_cross(a, b) ==
    <<fsub(fmul(a[2], b[3]), fmul(a[3], b[2])),
      fsub(fmul(a[3], b[1]), fmul(a[1], b[3])),
      fsub(fmul(a[1], b[2]), fmul(a[2], b[1]))>>

vec3_square_len(a) == vec3_dot(a, a)

vec3_len(a) == fsqrt(vec3_square_len(a))

\* a scaled by the inverse of its length
vec3_normalized(a) == vec3_scale(a, fdiv(one, vec3_len(a)))

(***************************************************************************)
(* The library.                                                            *)
(***************************************************************************)
id == <<one, <<zero, zero, zero>>>>

add(a, b) == <<fadd(a[1], b[1]), vec3_add(a[2], b[2])>>

scale(q, t) == <<fmul(q[1], t), vec3_scale(q[2], t)>>

dot(a, b) == fadd(fmul(a[1], b[1]), vec3_dot(a[2], b[2]))

\* mutant of mul: the cross product taken as cross(b.1, a.1)
mul_cross_swapped(a, b) ==
    <<fsub(fmul(a[1], b[1]), vec3_dot(a[2], b[2])),
      vec3_add(vec3_add(vec3_scale(b[2], a[1]), vec3_scale(a[2], b[1])),
               vec3_cross(b[2], a[2]))>>

\* mutant of mul: each vector part scaled by its own scalar part
mul_own_scalar(a, b) ==
    <<fsub(fmul(a[1], b[1]), vec3_dot(a[2], b[2])),
      vec3_add(vec3_add(vec3_scale(b[2], b[1]), vec3_scale(a[2], a[1])),
               vec3_cross(a[2], b[2]))>>

mul(a, b) ==
    <<fsub(fmul(a[1], b[1]), vec3_dot(a[2], b[2])),
      vec3_add(vec3_add(vec3_scale(b[2], a[1]), vec3_scale(a[2], b[1])),
               vec3_cross(a[2], b[2]))>>

conj(a) == <<a[1], vec3_neg(a[2])>>

square_len(q) == fadd(fmul(q[1], q[1]), vec3_square_len(q[2]))

len(q) == fsqrt(square_len(q))

\* mutant of rotate_vector: t is not doubled
rotate_vector_no_doubling(q, v) ==
    LET t == vec3_cross(q[2], v)
    IN  vec3_add(vec3_add(v, vec3_scale(t, q[1])), vec3_cross(q[2], t))

\* mutant of rotate_vector: v is not added
rotate_vector_drops_v(q, v) ==
    LET two == fadd(one, one)
        t == vec3_scale(vec3_cross(q[2], v), two)
    IN  vec3_add(vec3_scale(t, q[1]), vec3_cross(q[2], t))

rotate_vector(q, v) ==
    LET two == fadd(one, one)
        t == vec3_scale(vec3_cross(q[2], v), two)
    IN  vec3_add(vec3_add(v, vec3_scale(t, q[1])), vec3_cross(q[2], t))

\* mutant of axis_angle: the axis scaled by the cosine
axis_angle_cos_twice(axis, angle) ==
    LET half_angle == half(angle)
    IN  <<cos(half_angle), vec3_scale(axis, cos(half_angle))>>

axis_angle(axis, angle) ==
    LET half_angle == half(angle)
    IN  <<cos(half_angle), vec3_scale(axis, sin(half_angle))>>

\* mutant of euler_angles: the first two components of the vector part swapped
euler_angles_xy_swapped(x, y, z) ==
    LET cos_x_2 == cos(half(x))
        cos_y_2 == cos(half(y))
        cos_z_2 == cos(half(z))
        sin_x_2 == sin(half(x))
        sin_y_2 == sin(half(y))
        sin_z_2 == sin(half(z))
    IN  <<fadd(fmul(fmul(cos_x_2, cos_y_2), cos_z_2),
               fmul(fmul(sin_x_2, sin_y_2), sin_z_2)),
          <<fadd(fmul(fmul(cos_x_2, sin_y_2), cos_z_2),
                 fmul(fmul(sin_x_2, cos_y_2), sin_z_2)),
            fadd(fmul(fmul(sin_x_2, cos_y_2), cos_z_2),
                 fmul(fmul(cos_x_2, sin_y_2), sin_z_2)),
            fadd(fmul(fmul(cos_x_2, cos_y_2), sin_z_2),
                 fmul(fmul(sin_x_2, sin_y_2), cos_z_2))>>>>

euler_angles(x, y, z) ==
    LET half_x == half(x)
        half_y == half(y)
        half_z == half(z)
        cos_x_2 == cos(half_x)
        cos_y_2 == cos(half_y)
        cos_z_2 == cos(half_z)
        sin_x_2 == sin(half_x)
        sin_y_2 == sin(half_y)
        sin_z_2 == sin(half_z)
    IN  <<fadd(fmul(fmul(cos_x_2, cos_y_2), cos_z_2),
               fmul(fmul(sin_x_2, sin_y_2), sin_z_2)),
          <<fadd(fmul(fmul(sin_x_2, cos_y_2), cos_z_2),
                 fmul(fmul(cos_x_2, sin_y_2), sin_z_2)),
            fadd(fmul(fmul(cos_x_2, sin_y_2), cos_z_2),
                 fmul(fmul(sin_x_2, cos_y_2), sin_z_2)),
            fadd(fmul(fmul(cos_x_2, cos_y_2), sin_z_2),
                 fmul(fmul(sin_x_2, sin_y_2), cos_z_2))>>>>

\* the axis of the half turn taken when a, b are anti-parallel (a normalized)
anti_parallel_axis(a) ==
    LET axis == vec3_cross(<<one, zero, zero>>, a)
    IN  IF vec3_square_len(axis) = zero
        THEN vec3_cross(<<zero, one, zero>>, a)
        ELSE axis

\* mutant of rotation_from_to: the scalar part of q is dot, not 1 + dot
rotation_from_to_no_one(a0, b0) ==
    LET a == vec3_normalized(a0)
        b == vec3_normalized(b0)
        d == vec3_dot(a, b)
    IN  IF fge(d, one)
        THEN id
        ELSE IF flt(d, from_f64_neg_0_999999)
             THEN axis_angle(vec3_normalized(anti_parallel_axis(a)), PI)
             ELSE LET q == <<d, vec3_cross(a, b)>>
                  IN  scale(q, fdiv(one, len(q)))

rotation_from_to(a0, b0) ==
    LET a == vec3_normalized(a0)
        b == vec3_normalized(b0)
        d == vec3_dot(a, b)
    IN  IF fge(d, one)
        THEN id
        ELSE IF flt(d, from_f64_neg_0_999999)
             THEN axis_angle(vec3_normalized(anti_parallel_axis(a)), PI)
             ELSE LET q == <<fadd(one, d), vec3_cross(a, b)>>
                  IN  scale(q, fdiv(one, len(q)))

(***************************************************************************)
(* The inputs of the calls.                                                *)
(***************************************************************************)
IntVec(m) ==
    {<<Rat(x, 1), Rat(y, 1), Rat(z, 1)>> : x \in -m..m, y \in -m..m, z \in -m..m}

Vecs == IntVec(MaxV)

\* the non-zero vectors whose length is rational
RatLenVecs ==
    {v \in IntVec(MaxCoord) :
        vec3_square_len(v) # zero /\ HasSqrt(vec3_square_len(v))}

UnitAxes == {vec3_normalized(v) : v \in RatLenVecs}

Axes == UnitAxes \cup Vecs

IntQuats ==
    {<<Rat(w, 1), v>> : w \in -MaxQ..MaxQ, v \in IntVec(MaxQ)}

UnitQuats ==
    {scale(q, fdiv(one, len(q))) :
        q \in {p \in IntQuats : square_len(p) # zero /\ HasSqrt(square_len(p))}}

Quats == IntQuats \cup UnitQuats

QuatPairs ==
    (UnitQuats \X UnitQuats) \cup (Quats \X {id}) \cup ({id} \X Quats)

Scalars == {Rat(n, d) : n \in -MaxK..MaxK, d \in 1..MaxK}

Angles == {Angle(Rat(n, d)) : n \in -MaxTan..MaxTan, d \in 1..MaxTan}

\* whether every sqrt that rotation_from_to(a0, b0) takes is rational
FromToExact(a0, b0) ==
    LET a == vec3_normalized(a0)
        b == vec3_normalized(b0)
        d == vec3_dot(a, b)
    IN  IF fge(d, one)
        THEN TRUE
        ELSE IF flt(d, from_f64_neg_0_999999)
             THEN HasSqrt(vec3_square_len(anti_parallel_axis(a)))
             ELSE HasSqrt(square_len(<<fadd(one, d), vec3_cross(a, b)>>))

FromToVecs == RatLenVecs \cup UnitAxes

FromToArgs ==
    {ab \in FromToVecs \X FromToVecs : FromToExact(ab[1], ab[2])}

ArgsOf(f) ==
    CASE f = "id" -> {<<>>}
      [] f \in {"add", "dot", "mul"} -> QuatPairs
      [] f = "scale" -> Quats \X Scalars
      [] f \in {"conj", "square_len"} -> {<<q>> : q \in Quats}
      [] f = "len" -> {<<q>> : q \in {p \in Quats : HasSqrt(square_len(p))}}
      [] f = "rotate_vector" -> UnitQuats \X Vecs
      [] f = "rotation_from_to" -> FromToArgs
      [] f = "euler_angles" -> Angles \X Angles \X Angles
      [] f = "axis_angle" -> Axes \X Angles

Functions ==
    {"id", "add", "scale", "dot", "mul", "conj", "square_len", "len",
     "rotate_vector", "rotation_from_to", "euler_angles", "axis_angle"}

(***************************************************************************)
(* One call of one function: the arguments are chosen, the call returns.   *)
(***************************************************************************)
Init ==
    /\ pc = "call"
    /\ fn \in Functions
    /\ args \in ArgsOf(fn)
    /\ ret = <<>>

Return(f, value) ==
    /\ pc = "call"
    /\ fn = f
    /\ ret' = value
    /\ pc' = "done"
    /\ UNCHANGED <<fn, args>>

CallId == Return("id", id)

CallAdd == Return("add", add(args[1], args[2]))

CallScale == Return("scale", scale(args[1], args[2]))

CallDot == Return("dot", dot(args[1], args[2]))

CallMul == Return("mul", mul(args[1], args[2]))

CallConj == Return("conj", conj(args[1]))

CallSquareLen == Return("square_len", square_len(args[1]))

CallLen == Return("len", len(args[1]))

CallRotateVector == Return("rotate_vector", rotate_vector(args[1], args[2]))

CallRotationFromTo ==
    Return("rotation_from_to", rotation_from_to(args[1], args[2]))

CallEulerAngles ==
    Return("euler_angles", euler_angles(args[1], args[2], args[3]))

CallAxisAngle == Return("axis_angle", axis_angle(args[1], args[2]))

Next ==
    \/ CallId
    \/ CallAdd
    \/ CallScale
    \/ CallDot
    \/ CallMul
    \/ CallConj
    \/ CallSquareLen
    \/ CallLen
    \/ CallRotateVector
    \/ CallRotationFromTo
    \/ CallEulerAngles
    \/ CallAxisAngle

Spec == Init /\ [][Next]_vars

\* the call of f has returned
Done(f) == pc = "done" /\ fn = f

(***************************************************************************)
(* Vocabulary of the properties.                                           *)
(***************************************************************************)
ex == <<one, zero, zero>>
ey == <<zero, one, zero>>
ez == <<zero, zero, one>>
zero_vec == <<zero, zero, zero>>

IsUnitQuat(q) == square_len(q) = one

IsUnitVec(v) == vec3_square_len(v) = one

\* the dot product of the normalized arguments of rotation_from_to
NormDot(a, b) == vec3_dot(vec3_normalized(a), vec3_normalized(b))

\* rotation_from_to(a, b) takes neither the parallel nor the anti-parallel branch
GeneralBranch(a, b) ==
    /\ fge(NormDot(a, b), from_f64_neg_0_999999)
    /\ flt(NormDot(a, b), one)

\* the vectors a product of two rotations is applied to: rotate_vector(q, v) is
\* linear in v, so the basis decides; (1, 1, 1) is the vector of the tests
Probes == {ex, ey, ez, <<one, one, one>>}

\* q * (0, v) * conj(q)
Sandwich(q, v) == mul(mul(q, <<zero, v>>), conj(q))

(***************************************************************************)
(* C1: for all angles x, y, z the quaternion euler_angles(x, y, z) is a    *)
(* unit quaternion: its square_len is 1.                                   *)
(***************************************************************************)
C1_EulerAnglesIsUnit ==
    Done("euler_angles") => square_len(ret) = one

(***************************************************************************)
(* C2: euler_angles(x, y, z) is, component for component, the product     *)
(* mul(mul(qx, qy), qz) of the rotations about the X, Y and Z axes by x,   *)
(* y and z.                                                                *)
(***************************************************************************)
C2_EulerAnglesIsXThenYThenZ ==
    Done("euler_angles") =>
        ret = mul(mul(axis_angle(ex, args[1]), axis_angle(ey, args[2])),
                  axis_angle(ez, args[3]))

(***************************************************************************)
(* C3: for unit quaternions a and b, rotating a vector by mul(a, b) is     *)
(* rotating it by b and then by a; and mul is not commutative.             *)
(***************************************************************************)
C3_MulComposesRotations ==
    /\ (Done("mul") /\ IsUnitQuat(args[1]) /\ IsUnitQuat(args[2])) =>
           \A v \in Probes :
               rotate_vector(ret, v) =
                   rotate_vector(args[1], rotate_vector(args[2], v))
    /\ mul(<<zero, ex>>, <<zero, ey>>) # mul(<<zero, ey>>, <<zero, ex>>)

\* two unit quaternions, neither the identity, whose products differ
C3_Witness ==
    /\ Done("mul") /\ IsUnitQuat(args[1]) /\ IsUnitQuat(args[2])
    /\ args[1] # id /\ args[2] # id
    /\ ret # mul(args[2], args[1])
    /\ rotate_vector(ret, ex) = rotate_vector(args[1], rotate_vector(args[2], ex))
    /\ rotate_vector(ret, ex) # rotate_vector(args[2], rotate_vector(args[1], ex))

(***************************************************************************)
(* C4: for a unit quaternion q, rotate_vector(q, v) is the vector part of  *)
(* the sandwich product q * (0, v) * conj(q), whose scalar part is 0.      *)
(***************************************************************************)
C4_RotateVectorIsSandwich ==
    (Done("rotate_vector") /\ IsUnitQuat(args[1])) =>
        /\ ret = Sandwich(args[1], args[2])[2]
        /\ Sandwich(args[1], args[2])[1] = zero

\* a unit quaternion with non-zero scalar part that moves the vector
C4_Witness ==
    /\ Done("rotate_vector") /\ IsUnitQuat(args[1])
    /\ args[1][1] # zero /\ args[1][1] # one
    /\ ret # args[2]
    /\ ret = Sandwich(args[1], args[2])[2]

(***************************************************************************)
(* C5: in the general branch (a, b non-zero, neither parallel nor          *)
(* anti-parallel) rotation_from_to(a, b) is a unit quaternion that rotates *)
(* a onto the direction of b, keeping its length; onto b itself when a and *)
(* b are unit vectors.                                                     *)
(***************************************************************************)
C5_FromToRotatesAOntoB ==
    (Done("rotation_from_to") /\ GeneralBranch(args[1], args[2])) =>
        /\ IsUnitQuat(ret)
        /\ rotate_vector(ret, args[1]) =
               vec3_scale(vec3_normalized(args[2]), vec3_len(args[1]))
        /\ (IsUnitVec(args[1]) /\ IsUnitVec(args[2])) =>
               rotate_vector(ret, args[1]) = args[2]

\* unit vectors at an acute angle, neither along a coordinate axis
C5_Witness ==
    /\ Done("rotation_from_to") /\ GeneralBranch(args[1], args[2])
    /\ IsUnitVec(args[1]) /\ IsUnitVec(args[2])
    /\ flt(zero, NormDot(args[1], args[2]))
    /\ ret # id
    /\ rotate_vector(ret, args[1]) = args[2]

(***************************************************************************)
(* C6: rotation_from_to(a, -a) is a half turn about a unit axis orthogonal *)
(* to a, and rotates a onto -a; also when a is parallel to (1, 0, 0),      *)
(* where the axis comes from the cross product with (0, 1, 0).             *)
(***************************************************************************)
C6_FromToAntiParallel ==
    (Done("rotation_from_to") /\ args[2] = vec3_neg(args[1])) =>
        /\ flt(NormDot(args[1], args[2]), from_f64_neg_0_999999)
        /\ ret[1] = zero
        /\ IsUnitVec(ret[2])
        /\ vec3_dot(ret[2], args[1]) = zero
        /\ rotate_vector(ret, args[1]) = args[2]
        /\ vec3_cross(ex, args[1]) = zero_vec =>
               ret[2] = vec3_normalized(vec3_cross(ey, args[1]))

\* a is parallel to (1, 0, 0): the fallback axis
C6_Witness ==
    /\ Done("rotation_from_to") /\ args[2] = vec3_neg(args[1])
    /\ vec3_cross(ex, args[1]) = zero_vec
    /\ args[1] # ex
    /\ ret[2] # zero_vec
    /\ rotate_vector(ret, args[1]) = args[2]

(***************************************************************************)
(* C7: axis_angle(axis, theta) has squared length cos^2(theta / 2) +       *)
(* L * sin^2(theta / 2) for an axis of squared length L (the axis is not   *)
(* normalized), hence 1 for a unit axis.                                   *)
(***************************************************************************)
C7_AxisAngleSquareLen ==
    Done("axis_angle") =>
        LET L == vec3_square_len(args[1])
            c == cos(half(args[2]))
            s == sin(half(args[2]))
        IN  /\ square_len(ret) = fadd(fmul(c, c), fmul(L, fmul(s, s)))
            /\ L = one => square_len(ret) = one

\* a unit axis off the coordinate axes and an angle that is no multiple of pi
C7_Witness ==
    /\ Done("axis_angle") /\ IsUnitVec(args[1])
    /\ args[1][1] # zero /\ args[1][2] # zero
    /\ ret[1] # zero /\ ret[1] # one
    /\ square_len(ret) = one

(***************************************************************************)
(* C8: id = (1, (0, 0, 0)) is a two-sided identity of mul, for unit and    *)
(* non-unit quaternions alike.                                             *)
(***************************************************************************)
C8_IdIsIdentity ==
    /\ id = <<one, <<zero, zero, zero>>>>
    /\ (Done("mul") /\ args[2] = id) => ret = args[1]
    /\ (Done("mul") /\ args[1] = id) => ret = args[2]

\* a non-unit quaternion multiplied by id
C8_Witness ==
    /\ Done("mul") /\ args[1] = id
    /\ ~IsUnitQuat(args[2]) /\ args[2][2] # zero_vec
    /\ ret = args[2]

(***************************************************************************)
(* C9: the half turn about Y, as axis_angle((0, 1, 0), pi) or as           *)
(* euler_angles(0, pi, 0), is the quaternion (0, (0, 1, 0)), and it        *)
(* rotates (x, y, z) to (-x, y, -z).                                       *)
(***************************************************************************)
C9_HalfTurnAboutY ==
    (\/ Done("axis_angle") /\ args = <<ey, PI>>
     \/ Done("euler_angles") /\ args = <<Angle(zero), PI, Angle(zero)>>) =>
        /\ ret = <<zero, ey>>
        /\ \A v \in Vecs :
               rotate_vector(ret, v) = <<fneg(v[1]), v[2], fneg(v[3])>>

\* euler_angles(0, pi, 0) has returned what axis_angle((0, 1, 0), pi) returns
C9_Witness ==
    /\ Done("euler_angles") /\ args = <<Angle(zero), PI, Angle(zero)>>
    /\ ret = axis_angle(ey, PI)
    /\ rotate_vector(ret, <<one, one, one>>) = <<fneg(one), one, fneg(one)>>

(***************************************************************************)
(* C10: a rotation about a unit axis n leaves every multiple of n          *)
(* unchanged.                                                              *)
(***************************************************************************)
C10_AxisIsFixed ==
    (Done("axis_angle") /\ IsUnitVec(args[1])) =>
        \A k \in Scalars :
            rotate_vector(ret, vec3_scale(args[1], k)) = vec3_scale(args[1], k)

\* a proper rotation about a unit axis off the coordinate axes
C10_Witness ==
    /\ Done("axis_angle") /\ IsUnitVec(args[1])
    /\ args[1][2] # zero /\ args[1][3] # zero
    /\ ret[2] # zero_vec
    /\ rotate_vector(ret, ex) # ex
    /\ rotate_vector(ret, vec3_scale(args[1], fadd(one, one))) =
           vec3_scale(args[1], fadd(one, one))

====
